---- MODULE Spec2Model ----
(***************************************************************************)
(* Sovereign bond marketplace backend (backend/server.py).                 *)
(*                                                                         *)
(* The document store is three collections: bonds, portfolios and          *)
(* transactions.  Every handler is a coroutine; it is cut into one step    *)
(* per awaited store call, the local code that follows the call up to the  *)
(* next await belonging to the same step.  pc[p] is the position of        *)
(* request slot p, local[p] its local variables, resp[p] its response.     *)
(*                                                                         *)
(* Units.  Prices are integers counted in 1/PriceScale dollar (1e-5 $);    *)
(* amounts (price x quantity, sums of them) are pairs [d, f] of whole      *)
(* dollars and a fraction 0 <= f < PriceScale, so that products do not     *)
(* leave the integer range.  coupon_rate and risk_factor are in tenths of  *)
(* a percent, yields in hundredths of a percent, the demand signal in      *)
(* thousandths.  Dates are days since 2024-01-01, the clock is in hours    *)
(* since 2024-01-01 00:00.                                                 *)
(***************************************************************************)
EXTENDS Integers, Sequences, FiniteSets, TLC

VARIABLES bonds, portfolios, transactions, now, nextId, pc, local, resp, nreq

vars == <<bonds, portfolios, transactions, now, nextId, pc, local, resp, nreq>>

store == <<bonds, portfolios, transactions>>

(* ------------------------------ bounds -------------------------------- *)

\* Writing requests (POST /trade, GET /bonds) started in a sequential run.
MaxRequests == 3

\* Writing requests started in a concurrent run on the seeded catalog.
MaxConcRequests == 2

\* GET /bonds requests started in a concurrent run on the empty store.
MaxSeedRequests == 2

\* POST /trade requests started in a run in which store calls may fail.
MaxFaultRequests == 2

\* POST /trade requests started in a run with unchecked request bodies.
MaxLooseRequests == 2

\* Writing requests (GET /bonds, POST /trade) started in a pricing run.
MaxPriceRequests == 5

\* Writing requests started in a run of repeated refreshes on the seeded catalog.
MaxRiseRequests == 7

\* POST /trade requests started in a run on a long transaction log.
MaxLogRequests == 1

\* The longest transaction log a run starts from.
MaxLogLength == 1001

\* POST /trade requests started in a run with a passing clock.
MaxClockRequests == 2

\* Hours the clock may pass in such a run.
MaxElapsedHours == 24

\* Writing requests started in a run of a refresh against a trade.
MaxRefreshRequests == 2

\* Request slots: the coroutines that may be in flight together.
Proc == {1, 2}

(* ---------------------------- arithmetic ------------------------------ *)

PriceScale == 100 * 1000

Max(a, b) == IF a >= b THEN a ELSE b

\* n / d to the nearest integer, d > 0 (halves upwards).
RoundDiv(n, d) == (n \div d) + (IF 2 * (n % d) >= d THEN 1 ELSE 0)

\* round(x, 2) of a value x counted in 1/unit, unit = 100 * grain: the nearest
\* multiple of grain, a tie going to the even hundredth.
RoundTo(x, grain) ==
    LET q == x \div grain
        r == x % grain
    IN  IF 2 * r > grain \/ (2 * r = grain /\ q % 2 = 1)
        THEN (q + 1) * grain
        ELSE q * grain

Norm(d, x) == [d |-> d + (x \div PriceScale), f |-> x % PriceScale]

Zero == [d |-> 0, f |-> 0]

\* price * quantity
Times(price, quantity) ==
    Norm((price \div PriceScale) * quantity, (price % PriceScale) * quantity)

Plus(a, b) == Norm(a.d + b.d, a.f + b.f)

Positive(a) == a.d > 0 \/ (a.d = 0 /\ a.f > 0)

\* round(amount, 2)
Round2(a) == Norm(a.d, RoundTo(a.f, PriceScale \div 100))

Dollars(a) == a.d + (IF 2 * a.f >= PriceScale THEN 1 ELSE 0)

\* floor(r * 10^digits / t) for 0 <= r < t, by long division.
RECURSIVE FracDigits(_, _, _)
FracDigits(r, t, digits) ==
    IF digits = 0 THEN 0
    ELSE LET q == (r * 10) \div t
             rest == FracDigits((r * 10) % t, t, digits - 1)
             pow == IF digits = 1 THEN 1
                    ELSE IF digits = 2 THEN 10
                    ELSE IF digits = 3 THEN 100
                    ELSE IF digits = 4 THEN 1000
                    ELSE IF digits = 5 THEN 10000
                    ELSE 100000
         IN  q * pow + rest

\* y * value / total, y in hundredths of a percent, the result in 1e-4 percent.
Weighted(y, value, total) ==
    LET v == Dollars(value)
        t == Dollars(total)
    IN  y * 100 * (v \div t) + (y * FracDigits(v % t, t, 6)) \div 10000

(* ------------------------------ seed data ----------------------------- *)

MOCK_BONDS == <<
    [country |-> "Ghana", face_value |-> 1000 * PriceScale, coupon_rate |-> 75,
     maturity_date |-> 2191, current_price |-> 950 * PriceScale,
     risk_factor |-> 23, total_supply |-> 10000, available_supply |-> 7500],
    [country |-> "Nigeria", face_value |-> 1000 * PriceScale, coupon_rate |-> 82,
     maturity_date |-> 911, current_price |-> 920 * PriceScale,
     risk_factor |-> 41, total_supply |-> 15000, available_supply |-> 12000],
    [country |-> "Kenya", face_value |-> 1000 * PriceScale, coupon_rate |-> 68,
     maturity_date |-> 1535, current_price |-> 965 * PriceScale,
     risk_factor |-> 18, total_supply |-> 8000, available_supply |-> 5500],
    [country |-> "South Africa", face_value |-> 1000 * PriceScale, coupon_rate |-> 91,
     maturity_date |-> 1368, current_price |-> 890 * PriceScale,
     risk_factor |-> 52, total_supply |-> 20000, available_supply |-> 18500] >>

Bond(bond_data, id) ==
    [id |-> id, country |-> bond_data.country, face_value |-> bond_data.face_value,
     coupon_rate |-> bond_data.coupon_rate, maturity_date |-> bond_data.maturity_date,
     current_price |-> bond_data.current_price, risk_factor |-> bond_data.risk_factor,
     total_supply |-> bond_data.total_supply,
     available_supply |-> bond_data.available_supply]

(* ------------------------------- clock -------------------------------- *)

\* The state of the clock: the UTC time in hours since 2024-01-01 00:00, and the
\* offset in hours of the server's time zone.
Clock(utc, utcoffset) == [utc |-> utc, utcoffset |-> utcoffset]

\* datetime.utcnow(): stamps transactions and portfolios.
utcnow == now.utc

\* datetime.now(): the server's local time, read by the yield and the stats.
datetime_now == now.utc + now.utcoffset

(* --------------------------- risk engine ------------------------------ *)

\* (maturity_date - datetime.now()).days
DaysToMaturity(bond, t) == (bond.maturity_date * 24 - t) \div 24

\* Mutant: the risk factor lowers the yield.
RawYieldRiskDiscounted(bond, t) ==
    LET risk_adjusted_yield == bond.coupon_rate * (1000 - bond.risk_factor) * 100
        quarter_days == 4 * DaysToMaturity(bond, t) - 2922
        maturity_adjustment == RoundDiv(Max(0, quarter_days) * 300000, 1461)
    IN  risk_adjusted_yield + maturity_adjustment

\* In 1e-6 percent, before the final round(.., 2).
RawYield(bond, t) ==
    LET risk_adjusted_yield == bond.coupon_rate * (1000 + bond.risk_factor) * 100
        quarter_days == 4 * DaysToMaturity(bond, t) - 2922
        maturity_adjustment == RoundDiv(Max(0, quarter_days) * 300000, 1461)
    IN  risk_adjusted_yield + maturity_adjustment

calculate_dynamic_yield(bond, t) == RoundTo(RawYield(bond, t), 10000) \div 10000

ScarcityAdjustment(bond) ==
    LET sold == bond.total_supply - bond.available_supply
        per_unit == 50 * PriceScale
    IN  sold * (per_unit \div bond.total_supply)
        + RoundDiv(sold * (per_unit % bond.total_supply), bond.total_supply)

\* Mutant: the price is not floored.
calculate_bond_price_unfloored(bond, market_demand) ==
    bond.current_price + ScarcityAdjustment(bond) - bond.risk_factor * PriceScale
    + (market_demand - 1000) * 25 * (PriceScale \div 1000)

calculate_bond_price(bond, market_demand) ==
    LET base_price == bond.current_price
        scarcity_adjustment == ScarcityAdjustment(bond)
        risk_discount == bond.risk_factor * PriceScale
        demand_adjustment == (market_demand - 1000) * 25 * (PriceScale \div 1000)
        final_price == base_price + scarcity_adjustment - risk_discount
                       + demand_adjustment
    IN  Max(final_price, (bond.face_value * 7) \div 10)

(* ---------------------------- store access ---------------------------- *)

\* Position of the first document of db.bonds whose id is id, 0 if none.
BondIndex(id) ==
    IF \E i \in 1..Len(bonds) : bonds[i].id = id
    THEN CHOOSE i \in 1..Len(bonds) :
            /\ bonds[i].id = id
            /\ \A j \in 1..(i - 1) : bonds[j].id # id
    ELSE 0

\* portfolio.bonds is a dict in insertion order: a sequence of entries.
HoldingIndex(holdings, id) ==
    IF \E i \in 1..Len(holdings) : holdings[i].bond_id = id
    THEN CHOOSE i \in 1..Len(holdings) : holdings[i].bond_id = id
    ELSE 0

\* cursor.to_list(length): at most length documents, in insertion order.
to_list(s, length) == SubSeq(s, 1, IF Len(s) < length THEN Len(s) ELSE length)

Remove(s, i) == SubSeq(s, 1, i - 1) \o SubSeq(s, i + 1, Len(s))

NewPortfolio(user_address, t) ==
    [user_address |-> user_address, bonds |-> <<>>, total_value |-> Zero,
     total_yield |-> 0, created_at |-> t]

(* ------------------------------ requests ------------------------------ *)

Idle == [kind |-> "idle"]

NoResponse == [status |-> 0]

\* A handler returns (or raises HTTPException): the response is kept in resp[p].
Return(p, response) ==
    /\ pc' = [pc EXCEPT ![p] = "done"]
    /\ resp' = [resp EXCEPT ![p] = response]

Goto(p, label) ==
    /\ pc' = [pc EXCEPT ![p] = label]
    /\ UNCHANGED resp

Free(p) == pc[p] \in {"idle", "done"}

NoneInFlight == \A p \in Proc : Free(p)

(* ------------------------ GET /bonds/{id}/yield ----------------------- *)

StartGetBondYield(p, bond_id) ==
    /\ Free(p)
    /\ local' = [local EXCEPT ![p] = [kind |-> "get_bond_yield", bond_id |-> bond_id]]
    /\ pc' = [pc EXCEPT ![p] = "y_find"]
    /\ resp' = [resp EXCEPT ![p] = NoResponse]
    /\ UNCHANGED <<store, now, nextId, nreq>>

\* bond_data = await db.bonds.find_one({"id": bond_id}); the yield; the response.
get_bond_yield(p) ==
    /\ pc[p] = "y_find"
    /\ LET i == BondIndex(local[p].bond_id)
       IN  IF i = 0
           THEN Return(p, [status |-> 404, detail |-> "Bond not found"])
           ELSE Return(p, [status |-> 200, bond_id |-> local[p].bond_id,
                           country |-> bonds[i].country,
                           base_yield |-> bonds[i].coupon_rate,
                           risk_factor |-> bonds[i].risk_factor,
                           dynamic_yield |->
                               calculate_dynamic_yield(bonds[i], datetime_now),
                           current_price |-> bonds[i].current_price,
                           face_value |-> bonds[i].face_value])
    /\ UNCHANGED <<store, now, nextId, local, nreq>>

(* --------------------------- POST /trade ------------------------------ *)

TradeRequest(user_address, bond_id, quantity, transaction_type) ==
    [user_address |-> user_address, bond_id |-> bond_id, quantity |-> quantity,
     transaction_type |-> transaction_type]

StartTrade(p, trade) ==
    /\ Free(p)
    /\ nreq' = nreq + 1
    /\ local' = [local EXCEPT ![p] = [kind |-> "trade", trade |-> trade]]
    /\ pc' = [pc EXCEPT ![p] = "t_find_bond"]
    /\ resp' = [resp EXCEPT ![p] = NoResponse]
    /\ UNCHANGED <<store, now, nextId>>

\* Mutant: the buy is checked against total_supply.
InsufficientSupplyOfTotal(trade, bond) ==
    trade.transaction_type = "buy" /\ trade.quantity > bond.total_supply

\* The check made before anything is written.
InsufficientSupply(trade, bond) ==
    trade.transaction_type = "buy" /\ trade.quantity > bond.available_supply

BondTransaction(id, trade, trade_price, total_amount, t) ==
    [id |-> id, user_address |-> trade.user_address, bond_id |-> trade.bond_id,
     transaction_type |-> trade.transaction_type, quantity |-> trade.quantity,
     price_per_bond |-> trade_price, total_amount |-> total_amount,
     timestamp |-> t]

\* Mutant: the transaction is recorded before the request is checked.
RejectAfterRecording(p, status_code, detail) ==
    /\ Return(p, [status |-> status_code, detail |-> detail])
    /\ transactions' = Append(transactions,
           BondTransaction(nextId, local[p].trade, 0, Zero, utcnow))
    /\ nextId' = nextId + 1
    /\ UNCHANGED <<bonds, portfolios, local>>

\* raise HTTPException(..): nothing has been written yet.
Reject(p, status_code, detail) ==
    /\ Return(p, [status |-> status_code, detail |-> detail])
    /\ UNCHANGED <<store, local, nextId>>

\* Mutant: the trade is priced at the upper end of the demand range.
AcceptAtHighDemand(p, trade, bond) ==
    LET trade_price == calculate_bond_price(bond, 1300)
        total_amount == Times(trade_price, trade.quantity)
    IN  /\ local' = [local EXCEPT ![p] =
               [kind |-> "trade", trade |-> trade, bond |-> bond,
                trade_price |-> trade_price, total_amount |-> total_amount,
                transaction |-> BondTransaction(nextId, trade, trade_price,
                                                total_amount, utcnow)]]
        /\ nextId' = nextId + 1
        /\ Goto(p, "t_insert_tx")
        /\ UNCHANGED store

\* The price, the amount and the transaction record of an accepted trade.
Accept(p, trade, bond) ==
    LET trade_price == calculate_bond_price(bond, 1000)
        total_amount == Times(trade_price, trade.quantity)
    IN  /\ local' = [local EXCEPT ![p] =
               [kind |-> "trade", trade |-> trade, bond |-> bond,
                trade_price |-> trade_price, total_amount |-> total_amount,
                transaction |-> BondTransaction(nextId, trade, trade_price,
                                                total_amount, utcnow)]]
        /\ nextId' = nextId + 1
        /\ Goto(p, "t_insert_tx")
        /\ UNCHANGED store

\* bond_data = await db.bonds.find_one(..); the checks; price and record.
TradeFindBond(p) ==
    /\ pc[p] = "t_find_bond"
    /\ LET trade == local[p].trade
           i == BondIndex(trade.bond_id)
       IN  IF i = 0
           THEN Reject(p, 404, "Bond not found")
           ELSE IF InsufficientSupply(trade, bonds[i])
           THEN Reject(p, 400, "Insufficient bond supply")
           ELSE Accept(p, trade, bonds[i])
    /\ UNCHANGED <<now, nreq>>

\* Mutant: the record takes the place of the log.
TradeInsertTransactionReplacing(p) ==
    /\ pc[p] = "t_insert_tx"
    /\ transactions' = << local[p].transaction >>
    /\ Goto(p, "t_update_supply")
    /\ UNCHANGED <<bonds, portfolios, now, nextId, local, nreq>>

\* await db.transactions.insert_one(transaction.dict())
TradeInsertTransaction(p) ==
    /\ pc[p] = "t_insert_tx"
    /\ transactions' = Append(transactions, local[p].transaction)
    /\ Goto(p, "t_update_supply")
    /\ UNCHANGED <<bonds, portfolios, now, nextId, local, nreq>>

\* Mutant: the two sides are swapped.
NewAvailableSupplySwapped(bond, trade) ==
    IF trade.transaction_type = "buy"
    THEN bond.available_supply + trade.quantity
    ELSE bond.available_supply - trade.quantity

NewAvailableSupply(bond, trade) ==
    IF trade.transaction_type = "buy"
    THEN bond.available_supply - trade.quantity
    ELSE bond.available_supply + trade.quantity

\* update_one({"id": ..}, {"$set": {"available_supply": ..}}): the first match.
SetAvailableSupply(id, supply) ==
    LET i == BondIndex(id)
    IN  IF i = 0 THEN bonds
        ELSE [bonds EXCEPT ![i].available_supply = supply]

TradeUpdateSupply(p) ==
    /\ pc[p] = "t_update_supply"
    /\ bonds' = SetAvailableSupply(local[p].trade.bond_id,
                    NewAvailableSupply(local[p].bond, local[p].trade))
    /\ Goto(p, "t_find_portfolio")
    /\ UNCHANGED <<portfolios, transactions, now, nextId, local, nreq>>

\* Mutant: an entry is removed only when it falls below zero.
UpdateHoldingsKeepingZero(holdings, trade) ==
    LET id == trade.bond_id
        present == IF HoldingIndex(holdings, id) = 0
                   THEN Append(holdings, [bond_id |-> id, quantity |-> 0])
                   ELSE holdings
        i == HoldingIndex(present, id)
    IN  IF trade.transaction_type = "buy"
        THEN [present EXCEPT ![i].quantity = @ + trade.quantity]
        ELSE IF present[i].quantity - trade.quantity < 0
             THEN Remove(present, i)
             ELSE [present EXCEPT ![i].quantity = @ - trade.quantity]

\* portfolio.bonds after the trade.
UpdateHoldings(holdings, trade) ==
    LET id == trade.bond_id
        present == IF HoldingIndex(holdings, id) = 0
                   THEN Append(holdings, [bond_id |-> id, quantity |-> 0])
                   ELSE holdings
        i == HoldingIndex(present, id)
    IN  IF trade.transaction_type = "buy"
        THEN [present EXCEPT ![i].quantity = @ + trade.quantity]
        ELSE IF present[i].quantity - trade.quantity <= 0
             THEN Remove(present, i)
             ELSE [present EXCEPT ![i].quantity = @ - trade.quantity]

\* portfolio_data = await db.portfolios.find_one(..); the holdings update.
TradeFindPortfolio(p) ==
    /\ pc[p] = "t_find_portfolio"
    /\ LET trade == local[p].trade
           u == trade.user_address
           portfolio == IF u \in DOMAIN portfolios THEN portfolios[u]
                        ELSE NewPortfolio(u, utcnow)
           updated == [portfolio EXCEPT !.bonds = UpdateHoldings(@, trade)]
       IN  /\ local' = [local EXCEPT ![p] =
                  [kind |-> "trade", trade |-> trade, bond |-> local[p].bond,
                   trade_price |-> local[p].trade_price,
                   total_amount |-> local[p].total_amount,
                   transaction |-> local[p].transaction,
                   portfolio |-> updated, idx |-> 1,
                   total_value |-> Zero, total_yield |-> 0]]
           /\ Goto(p, IF updated.bonds = <<>> THEN "t_save" ELSE "t_value")
    /\ UNCHANGED <<store, now, nextId, nreq>>

\* total_yield += bond_yield * (price * quantity) / total_value
\*                    if total_value > 0 else 0     (total_value: the sum so far)
YieldTerm(bond_yield, value, total_value) ==
    IF Positive(total_value) THEN Weighted(bond_yield, value, total_value) ELSE 0

\* Mutant: the holdings are valued at the price of the trade.
TradeValueStepAtTradePrice(p) ==
    /\ pc[p] = "t_value"
    /\ LET l == local[p]
           entry == l.portfolio.bonds[l.idx]
           i == BondIndex(entry.bond_id)
           value == Times(l.trade_price, entry.quantity)
           total_value == IF i = 0 THEN l.total_value
                          ELSE Plus(l.total_value, value)
           total_yield == IF i = 0 THEN l.total_yield
                          ELSE l.total_yield
                               + YieldTerm(calculate_dynamic_yield(bonds[i], datetime_now),
                                           value, total_value)
       IN  /\ local' = [local EXCEPT ![p].idx = @ + 1,
                                     ![p].total_value = total_value,
                                     ![p].total_yield = total_yield]
           /\ Goto(p, IF l.idx = Len(l.portfolio.bonds) THEN "t_save" ELSE "t_value")
    /\ UNCHANGED <<store, now, nextId, nreq>>

\* One turn of the loop over portfolio.bonds.items(): find_one, then the sums.
TradeValueStep(p) ==
    /\ pc[p] = "t_value"
    /\ LET l == local[p]
           entry == l.portfolio.bonds[l.idx]
           i == BondIndex(entry.bond_id)
           value == Times(bonds[i].current_price, entry.quantity)
           total_value == IF i = 0 THEN l.total_value
                          ELSE Plus(l.total_value, value)
           total_yield == IF i = 0 THEN l.total_yield
                          ELSE l.total_yield
                               + YieldTerm(calculate_dynamic_yield(bonds[i], datetime_now),
                                           value, total_value)
       IN  /\ local' = [local EXCEPT ![p].idx = @ + 1,
                                     ![p].total_value = total_value,
                                     ![p].total_yield = total_yield]
           /\ Goto(p, IF l.idx = Len(l.portfolio.bonds) THEN "t_save" ELSE "t_value")
    /\ UNCHANGED <<store, now, nextId, nreq>>

\* The rounded totals, replace_one(.., upsert=True), and the response.
TradeSavePortfolio(p) ==
    /\ pc[p] = "t_save"
    /\ LET l == local[p]
           portfolio == [l.portfolio EXCEPT
                            !.total_value = Round2(l.total_value),
                            !.total_yield = RoundTo(l.total_yield, 100) \div 100]
           u == l.trade.user_address
       IN  /\ portfolios' = [v \in DOMAIN portfolios \cup {u} |->
                                IF v = u THEN portfolio ELSE portfolios[v]]
           /\ local' = [local EXCEPT ![p].portfolio = portfolio]
           /\ Return(p, [status |-> 200, success |-> TRUE,
                         transaction_id |-> l.transaction.id,
                         trade_price |-> l.trade_price,
                         total_amount |-> l.total_amount,
                         new_portfolio_value |-> portfolio.total_value])
    /\ UNCHANGED <<bonds, transactions, now, nextId, nreq>>

execute_trade(p) ==
    \/ TradeFindBond(p)
    \/ TradeInsertTransaction(p)
    \/ TradeUpdateSupply(p)
    \/ TradeFindPortfolio(p)
    \/ TradeValueStep(p)
    \/ TradeSavePortfolio(p)

\* The positions of POST /trade: each is an awaited store call.
TradeLabels ==
    {"t_find_bond", "t_insert_tx", "t_update_supply", "t_find_portfolio",
     "t_value", "t_save"}

\* The awaited store call of the current step raises: nothing catches it, the
\* handler is left where it stands and the request is answered 500.
TradeStoreFails(p) ==
    /\ pc[p] \in TradeLabels
    /\ Return(p, [status |-> 500, detail |-> "Internal Server Error"])
    /\ UNCHANGED <<store, now, nextId, local, nreq>>

(* ---------------------------- GET /bonds ------------------------------ *)

StartGetBonds(p) ==
    /\ Free(p)
    /\ nreq' = nreq + 1
    /\ local' = [local EXCEPT ![p] = [kind |-> "get_bonds"]]
    /\ pc' = [pc EXCEPT ![p] = "g_count"]
    /\ resp' = [resp EXCEPT ![p] = NoResponse]
    /\ UNCHANGED <<store, now, nextId>>

\* Mutant: the mock bonds are inserted whatever the count.
InitCountIgnored(p) ==
    /\ pc[p] = "g_count"
    /\ local' = [local EXCEPT ![p] = [kind |-> "get_bonds", idx |-> 1]]
    /\ Goto(p, "g_insert")
    /\ UNCHANGED <<store, now, nextId, nreq>>

\* existing_bonds = await db.bonds.count_documents({})
InitCount(p) ==
    /\ pc[p] = "g_count"
    /\ local' = [local EXCEPT ![p] = [kind |-> "get_bonds", idx |-> 1]]
    /\ Goto(p, IF Len(bonds) = 0 THEN "g_insert" ELSE "g_find")
    /\ UNCHANGED <<store, now, nextId, nreq>>

\* One turn of the loop over MOCK_BONDS: a fresh id, insert_one.
InitInsert(p) ==
    /\ pc[p] = "g_insert"
    /\ bonds' = Append(bonds, Bond(MOCK_BONDS[local[p].idx], nextId))
    /\ nextId' = nextId + 1
    /\ local' = [local EXCEPT ![p].idx = @ + 1]
    /\ Goto(p, IF local[p].idx = Len(MOCK_BONDS) THEN "g_find" ELSE "g_insert")
    /\ UNCHANGED <<portfolios, transactions, now, nreq>>

initialize_bonds(p) == InitCount(p) \/ InitInsert(p)

\* bonds = await db.bonds.find().to_list(1000)
GetBondsFind(p) ==
    /\ pc[p] = "g_find"
    /\ local' = [local EXCEPT ![p] =
           [kind |-> "get_bonds", bonds |-> to_list(bonds, 1000), idx |-> 1]]
    /\ Goto(p, IF Len(bonds) = 0 THEN "g_refetch" ELSE "g_update")
    /\ UNCHANGED <<store, now, nextId, nreq>>

\* update_one({"id": ..}, {"$set": {"current_price": ..}}): the first match.
SetCurrentPrice(id, price) ==
    LET i == BondIndex(id)
    IN  IF i = 0 THEN bonds
        ELSE [bonds EXCEPT ![i].current_price = price]

\* Mutant: the refresh writes the whole document it read back.
GetBondsUpdateWholeDocument(p, market_demand) ==
    /\ pc[p] = "g_update"
    /\ LET bond == local[p].bonds[local[p].idx]
           updated_price == calculate_bond_price(bond, market_demand)
           i == BondIndex(bond.id)
       IN  bonds' = [bonds EXCEPT ![i] =
                        [bond EXCEPT !.current_price =
                            RoundTo(updated_price, PriceScale \div 100)]]
    /\ local' = [local EXCEPT ![p].idx = @ + 1]
    /\ Goto(p, IF local[p].idx = Len(local[p].bonds) THEN "g_refetch" ELSE "g_update")
    /\ UNCHANGED <<portfolios, transactions, now, nextId, nreq>>

\* One turn of the refresh loop, market_demand being the drawn demand signal.
GetBondsUpdate(p, market_demand) ==
    /\ pc[p] = "g_update"
    /\ LET bond == local[p].bonds[local[p].idx]
           updated_price == calculate_bond_price(bond, market_demand)
       IN  bonds' = SetCurrentPrice(bond.id,
                        RoundTo(updated_price, PriceScale \div 100))
    /\ local' = [local EXCEPT ![p].idx = @ + 1]
    /\ Goto(p, IF local[p].idx = Len(local[p].bonds) THEN "g_refetch" ELSE "g_update")
    /\ UNCHANGED <<portfolios, transactions, now, nextId, nreq>>

\* updated_bonds = await db.bonds.find().to_list(1000); the response.
GetBondsRefetch(p) ==
    /\ pc[p] = "g_refetch"
    /\ local' = [local EXCEPT ![p] = [kind |-> "get_bonds"]]
    /\ Return(p, [status |-> 200, bonds |-> to_list(bonds, 1000)])
    /\ UNCHANGED <<store, now, nextId, nreq>>

(* ------------------------ GET /portfolio/{user} ----------------------- *)

StartGetPortfolio(p, user_address) ==
    /\ Free(p)
    /\ local' = [local EXCEPT ![p] =
           [kind |-> "get_portfolio", user_address |-> user_address]]
    /\ pc' = [pc EXCEPT ![p] = "p_find"]
    /\ resp' = [resp EXCEPT ![p] = NoResponse]
    /\ UNCHANGED <<store, now, nextId, nreq>>

Summary(portfolio) ==
    [total_bonds |-> Len(portfolio.bonds), total_value |-> portfolio.total_value,
     average_yield |-> portfolio.total_yield]

\* portfolio_data = await db.portfolios.find_one(..)
PortfolioFind(p) ==
    /\ pc[p] = "p_find"
    /\ LET u == local[p].user_address
       IN  IF u \notin DOMAIN portfolios
           THEN /\ Return(p, [status |-> 200, bare |-> TRUE,
                              portfolio |-> NewPortfolio(u, utcnow),
                              detailed_holdings |-> <<>>])
                /\ UNCHANGED local
           ELSE IF portfolios[u].bonds = <<>>
           THEN /\ Return(p, [status |-> 200, bare |-> FALSE,
                              portfolio |-> portfolios[u],
                              detailed_holdings |-> <<>>,
                              summary |-> Summary(portfolios[u])])
                /\ UNCHANGED local
           ELSE /\ local' = [local EXCEPT ![p] =
                       [kind |-> "get_portfolio", user_address |-> u,
                        portfolio |-> portfolios[u], idx |-> 1,
                        detailed_holdings |-> <<>>]]
                /\ Goto(p, "p_holding")
    /\ UNCHANGED <<store, now, nextId, nreq>>

DetailedHolding(bond, quantity, t) ==
    [bond |-> bond, quantity |-> quantity,
     current_value |-> Round2(Times(bond.current_price, quantity)),
     dynamic_yield |-> calculate_dynamic_yield(bond, t),
     unrealized_pnl |-> Round2(Times(bond.current_price - bond.face_value,
                                     quantity))]

\* One turn of the loop over portfolio.bonds.items(): find_one, the holding.
PortfolioHolding(p) ==
    /\ pc[p] = "p_holding"
    /\ LET l == local[p]
           entry == l.portfolio.bonds[l.idx]
           i == BondIndex(entry.bond_id)
           detailed_holdings ==
               IF i = 0 THEN l.detailed_holdings
               ELSE Append(l.detailed_holdings,
                           DetailedHolding(bonds[i], entry.quantity, datetime_now))
       IN  IF l.idx = Len(l.portfolio.bonds)
           THEN /\ Return(p, [status |-> 200, bare |-> FALSE,
                              portfolio |-> l.portfolio,
                              detailed_holdings |-> detailed_holdings,
                              summary |-> Summary(l.portfolio)])
                /\ local' = [local EXCEPT ![p] =
                       [kind |-> "get_portfolio", user_address |-> l.user_address]]
           ELSE /\ local' = [local EXCEPT ![p].idx = @ + 1,
                               ![p].detailed_holdings = detailed_holdings]
                /\ Goto(p, "p_holding")
    /\ UNCHANGED <<store, now, nextId, nreq>>

(* -------------------------- GET /market-stats ------------------------- *)

StartGetMarketStats(p) ==
    /\ Free(p)
    /\ local' = [local EXCEPT ![p] = [kind |-> "get_market_stats"]]
    /\ pc' = [pc EXCEPT ![p] = "s_bonds"]
    /\ resp' = [resp EXCEPT ![p] = NoResponse]
    /\ UNCHANGED <<store, now, nextId, nreq>>

\* bonds = await db.bonds.find().to_list(1000)
StatsFindBonds(p) ==
    /\ pc[p] = "s_bonds"
    /\ local' = [local EXCEPT ![p] =
           [kind |-> "get_market_stats", bonds |-> to_list(bonds, 1000)]]
    /\ Goto(p, "s_transactions")
    /\ UNCHANGED <<store, now, nextId, nreq>>

RECURSIVE SumMarketValue(_, _)
\* sum(bond["current_price"] * bond["total_supply"]) over the first n bonds.
SumMarketValue(bs, n) ==
    IF n = 0 THEN Zero
    ELSE Plus(SumMarketValue(bs, n - 1),
              Times(bs[n].current_price, bs[n].total_supply))

RECURSIVE SumYields(_, _, _)
SumYields(s, n, t) ==
    IF n = 0 THEN 0
    ELSE SumYields(s, n - 1, t) + calculate_dynamic_yield(s[n], t)

\* datetime.now() - tx["timestamp"] < timedelta(days=1)
Within24h(tx, t) == t - tx.timestamp < 24

\* sum(tx["total_amount"] ..) over the records lo..hi that are within 24 hours
\* (summed by halves: the log may be long).
RECURSIVE SumVolumeRange(_, _, _, _)
SumVolumeRange(txs, lo, hi, t) ==
    IF lo > hi THEN Zero
    ELSE IF lo = hi
    THEN (IF Within24h(txs[lo], t) THEN txs[lo].total_amount ELSE Zero)
    ELSE LET mid == (lo + hi) \div 2
         IN  Plus(SumVolumeRange(txs, lo, mid, t),
                  SumVolumeRange(txs, mid + 1, hi, t))

SumVolume(txs, n, t) == SumVolumeRange(txs, 1, n, t)

MarketStats(bs, txs, t) ==
    LET avg_yield == IF Len(bs) = 0 THEN 0
                     ELSE RoundDiv(SumYields(bs, Len(bs), t) * 100, Len(bs))
    IN  [status |-> 200,
         total_market_value |-> Round2(SumMarketValue(bs, Len(bs))),
         total_volume_24h |-> Round2(SumVolume(txs, Len(txs), t)),
         average_yield |-> RoundTo(avg_yield, 100) \div 100,
         active_bonds |-> Len(bs),
         total_transactions |-> Len(txs)]

\* transactions = await db.transactions.find().to_list(1000); the rollup.
StatsFindTransactions(p) ==
    /\ pc[p] = "s_transactions"
    /\ Return(p, MarketStats(local[p].bonds, to_list(transactions, 1000),
                          datetime_now))
    /\ local' = [local EXCEPT ![p] = [kind |-> "get_market_stats"]]
    /\ UNCHANGED <<store, now, nextId, nreq>>

(* ---------------------------- specifications -------------------------- *)

Users == {"u1", "u2"}

\* 2025-07-01 12:00
StartClock == 547 * 24 + 12

Init ==
    /\ bonds = <<>>
    /\ portfolios = <<>>
    /\ transactions = <<>>
    /\ now = Clock(StartClock, 0)
    /\ nextId = 1
    /\ pc = [p \in Proc |-> "idle"]
    /\ local = [p \in Proc |-> Idle]
    /\ resp = [p \in Proc |-> NoResponse]
    /\ nreq = 0

\* Trade requests of the sequential runs: the first seeded bond (Ghana), the
\* second, and an id no bond has; a few units, all of Ghana's seeded
\* available_supply, and more than that.
SeqTrades ==
    { TradeRequest(u, b, q, t) :
        u \in Users, b \in {0, 1, 2}, q \in {5, 7500, 8000}, t \in {"buy", "sell"} }

SeqDemands == {800, 1300}

get_bonds(p, demands) ==
    \/ initialize_bonds(p)
    \/ GetBondsFind(p)
    \/ \E d \in demands : GetBondsUpdate(p, d)
    \/ GetBondsRefetch(p)

get_portfolio(p) == PortfolioFind(p) \/ PortfolioHolding(p)

get_market_stats(p) == StatsFindBonds(p) \/ StatsFindTransactions(p)

\* One request at a time, on slot 1.
Next ==
    \/ \E trade \in SeqTrades : nreq < MaxRequests /\ StartTrade(1, trade)
    \/ nreq < MaxRequests /\ StartGetBonds(1)
    \/ \E u \in Users : StartGetPortfolio(1, u)
    \/ StartGetMarketStats(1)
    \/ execute_trade(1)
    \/ get_bonds(1, SeqDemands)
    \/ get_portfolio(1)
    \/ get_market_stats(1)

Spec == Init /\ [][Next]_vars

\* The store after one GET /bonds on the empty store, demand signal d for every
\* bond: the four seeded bonds, each price refreshed once.
Seeded(d) ==
    [i \in 1..Len(MOCK_BONDS) |->
        LET bond == Bond(MOCK_BONDS[i], i)
        IN  [bond EXCEPT !.current_price =
                RoundTo(calculate_bond_price(bond, d), PriceScale \div 100)]]

\* Trade requests of the concurrent runs.
ConcTrades ==
    { TradeRequest(u, b, 5000, t) : u \in Users, b \in {1, 2}, t \in {"buy", "sell"} }

ConcDemands == {800, 1300}

InitConc ==
    /\ \E d \in ConcDemands : bonds = Seeded(d)
    /\ portfolios = <<>>
    /\ transactions = <<>>
    /\ now = Clock(StartClock, 0)
    /\ nextId = Len(MOCK_BONDS) + 1
    /\ pc = [p \in Proc |-> "idle"]
    /\ local = [p \in Proc |-> Idle]
    /\ resp = [p \in Proc |-> NoResponse]
    /\ nreq = 0

\* Requests on a seeded catalog, interleaved at every await, on all slots.
NextConc ==
    \E p \in Proc :
        \/ \E trade \in ConcTrades : nreq < MaxConcRequests /\ StartTrade(p, trade)
        \/ nreq < MaxConcRequests /\ StartGetBonds(p)
        \/ execute_trade(p)
        \/ InitCount(p)
        \/ GetBondsFind(p)
        \/ \E d \in ConcDemands : GetBondsUpdate(p, d)
        \/ GetBondsRefetch(p)

SpecConc == InitConc /\ [][NextConc]_vars

SeedDemands == {1300}

\* First-touch GET /bonds requests on the empty store, interleaved at every
\* await, and GET /market-stats.
NextSeed ==
    \E p \in Proc :
        \/ nreq < MaxSeedRequests /\ StartGetBonds(p)
        \/ StartGetMarketStats(p)
        \/ get_bonds(p, SeedDemands)
        \/ get_market_stats(p)

SpecSeed == Init /\ [][NextSeed]_vars

\* Trade requests of the runs with failing store calls: Ghana, a few units and
\* more than the seeded available_supply.
FaultTrades ==
    { TradeRequest(u, 1, q, t) : u \in Users, q \in {5, 8000}, t \in {"buy", "sell"} }

\* One POST /trade at a time on a seeded catalog; any awaited store call of the
\* handler may fail.
NextFault ==
    \/ \E trade \in FaultTrades : nreq < MaxFaultRequests /\ StartTrade(1, trade)
    \/ execute_trade(1)
    \/ TradeStoreFails(1)

SpecFault == InitConc /\ [][NextFault]_vars

\* Any body the request model lets through: quantity is a float and
\* transaction_type a string, so the quantity may be zero or negative and the
\* side need not be "buy" or "sell".
LooseTrades ==
    { TradeRequest("u1", 1, q, t) : q \in {-5, 0, 5}, t \in {"buy", "sell", "hold"} }

\* One POST /trade at a time on a seeded catalog.
NextLoose ==
    \/ \E trade \in LooseTrades : nreq < MaxLooseRequests /\ StartTrade(1, trade)
    \/ execute_trade(1)

SpecLoose == InitConc /\ [][NextLoose]_vars

\* Trade requests of the pricing runs: all of Kenya's seeded available_supply,
\* and a few units of South Africa.
PriceTrades == { TradeRequest("u1", 3, 5500, "buy"), TradeRequest("u1", 4, 5, "buy") }

\* The ends of the range random.uniform(0.8, 1.3) draws the demand signal from.
PriceDemands == {800, 1300}

\* Refreshes and trades one at a time, from the empty store.
NextPrice ==
    \/ nreq < MaxPriceRequests /\ StartGetBonds(1)
    \/ \E trade \in PriceTrades : nreq < MaxPriceRequests /\ StartTrade(1, trade)
    \/ get_bonds(1, PriceDemands)
    \/ execute_trade(1)

SpecPrice == Init /\ [][NextPrice]_vars

\* The one trade of the runs of repeated refreshes: all of Kenya's seeded
\* available_supply.
RiseTrades == { TradeRequest("u1", 3, 5500, "buy") }

\* Refreshes and the trade one at a time, on a seeded catalog.
NextRise ==
    \/ nreq < MaxRiseRequests /\ StartGetBonds(1)
    \/ \E trade \in RiseTrades : nreq < MaxRiseRequests /\ StartTrade(1, trade)
    \/ InitCount(1)
    \/ GetBondsFind(1)
    \/ \E d \in PriceDemands : GetBondsUpdate(1, d)
    \/ GetBondsRefetch(1)
    \/ execute_trade(1)

SpecRise == InitConc /\ [][NextRise]_vars

\* The inputs of the yield runs.  coupon_rate and risk_factor in tenths of a
\* percent: the seeded values and zero; maturity_date: less than two years, a
\* little more than two years and six years after the start of the clock.
YieldCoupons == {0, 68, 91}

YieldRisks == {0, 18, 23, 52}

YieldMaturities == {911, 1368, 2191}

\* The evaluation dates: the start, and the day after (in hours).
YieldClocks == {StartClock, StartClock + 24}

\* The first seeded bond with another coupon_rate, risk_factor and maturity_date.
YieldBond(id, coupon_rate, risk_factor, maturity_date) ==
    [Bond(MOCK_BONDS[1], id) EXCEPT !.coupon_rate = coupon_rate,
                                     !.risk_factor = risk_factor,
                                     !.maturity_date = maturity_date]

\* A catalog of two bonds drawn from the inputs, and an evaluation date.
InitYield ==
    /\ \E c1 \in YieldCoupons, c2 \in YieldCoupons, r1 \in YieldRisks,
          r2 \in YieldRisks, m1 \in YieldMaturities, m2 \in YieldMaturities :
           bonds = << YieldBond(1, c1, r1, m1), YieldBond(2, c2, r2, m2) >>
    /\ portfolios = <<>>
    /\ transactions = <<>>
    /\ \E t \in YieldClocks : now = Clock(t, 0)
    /\ nextId = 3
    /\ pc = [p \in Proc |-> "idle"]
    /\ local = [p \in Proc |-> Idle]
    /\ resp = [p \in Proc |-> NoResponse]
    /\ nreq = 0

\* GET /bonds/{id}/yield on both slots, for the two bonds and an unknown id.
NextYield ==
    \E p \in Proc :
        \/ \E b \in {0, 1, 2} : StartGetBondYield(p, b)
        \/ get_bond_yield(p)

SpecYield == InitYield /\ [][NextYield]_vars

\* The lengths of the transaction logs the long-log runs start from.
LogLengths == {MaxLogLength - 2, MaxLogLength - 1, MaxLogLength}

\* The k-th record of a log of buys of one Ghana bond each by u1 on the catalog
\* Seeded(d): the bond as the k-th trade reads it has k - 1 bonds sold.
LoggedBuy(d, k) ==
    LET trade == TradeRequest("u1", 1, 1, "buy")
        bond == [Seeded(d)[1] EXCEPT !.available_supply = @ - (k - 1)]
        trade_price == calculate_bond_price(bond, 1000)
    IN  BondTransaction(Len(MOCK_BONDS) + k, trade, trade_price,
                        Times(trade_price, trade.quantity), StartClock)

\* The portfolio u1 has stored after n such buys.
PortfolioAfterBuys(d, n) ==
    LET bond == Seeded(d)[1]
        value == Times(bond.current_price, n)
        total_yield == YieldTerm(calculate_dynamic_yield(bond, StartClock),
                                 value, value)
    IN  [NewPortfolio("u1", StartClock) EXCEPT
            !.bonds = << [bond_id |-> 1, quantity |-> n] >>,
            !.total_value = Round2(value),
            !.total_yield = RoundTo(total_yield, 100) \div 100]

\* The store after one GET /bonds (demand signal d) and n accepted buys of one
\* Ghana bond each by u1, all within the first hour.
InitLog ==
    /\ \E d \in ConcDemands : \E n \in LogLengths :
           /\ bonds = [Seeded(d) EXCEPT ![1].available_supply = @ - n]
           /\ transactions = [k \in 1..n |-> LoggedBuy(d, k)]
           /\ portfolios = [u \in {"u1"} |-> PortfolioAfterBuys(d, n)]
           /\ nextId = Len(MOCK_BONDS) + n + 1
    /\ now = Clock(StartClock, 0)
    /\ pc = [p \in Proc |-> "idle"]
    /\ local = [p \in Proc |-> Idle]
    /\ resp = [p \in Proc |-> NoResponse]
    /\ nreq = 0

LogTrades ==
    { TradeRequest(u, 1, 1, t) : u \in Users, t \in {"buy", "sell"} }

\* One more trade, and GET /market-stats, one request at a time.
NextLog ==
    \/ \E trade \in LogTrades : nreq < MaxLogRequests /\ StartTrade(1, trade)
    \/ StartGetMarketStats(1)
    \/ execute_trade(1)
    \/ get_market_stats(1)

SpecLog == InitLog /\ [][NextLog]_vars

\* The server's time zone, in hours east of UTC, is fixed when it starts.
UtcOffsets == {-5, 0, 5}

\* The steps, in hours, by which time passes between two steps of the program.
ClockSteps == {4, 20}

\* Time passes.
Tick(h) ==
    /\ now.utc + h <= StartClock + MaxElapsedHours
    /\ now' = [now EXCEPT !.utc = @ + h]
    /\ UNCHANGED <<store, nextId, pc, local, resp, nreq>>

ClockTrades ==
    { TradeRequest("u1", 1, 5, t) : t \in {"buy", "sell"} }

\* A seeded catalog on a server in any of the time zones.
InitClock ==
    /\ \E d \in ConcDemands : bonds = Seeded(d)
    /\ portfolios = <<>>
    /\ transactions = <<>>
    /\ \E z \in UtcOffsets : now = Clock(StartClock, z)
    /\ nextId = Len(MOCK_BONDS) + 1
    /\ pc = [p \in Proc |-> "idle"]
    /\ local = [p \in Proc |-> Idle]
    /\ resp = [p \in Proc |-> NoResponse]
    /\ nreq = 0

\* Trades and GET /market-stats one at a time while time passes.
NextClock ==
    \/ \E trade \in ClockTrades : nreq < MaxClockRequests /\ StartTrade(1, trade)
    \/ StartGetMarketStats(1)
    \/ execute_trade(1)
    \/ get_market_stats(1)
    \/ \E h \in ClockSteps : Tick(h)

SpecClock == InitClock /\ [][NextClock]_vars

\* Trade requests of the runs of a refresh against a trade: Ghana, the first
\* bond a refresh writes.
RefreshTrades == { TradeRequest("u1", 1, 5000, t) : t \in {"buy", "sell"} }

\* Refreshes and trades on a seeded catalog, interleaved at every await.
NextRefresh ==
    \E p \in Proc :
        \/ \E trade \in RefreshTrades :
               nreq < MaxRefreshRequests /\ StartTrade(p, trade)
        \/ nreq < MaxRefreshRequests /\ StartGetBonds(p)
        \/ execute_trade(p)
        \/ InitCount(p)
        \/ GetBondsFind(p)
        \/ \E d \in ConcDemands : GetBondsUpdate(p, d)
        \/ GetBondsRefetch(p)

SpecRefresh == InitConc /\ [][NextRefresh]_vars

(* ------------------------------- claims ------------------------------- *)

\* What the transaction log says was traded: the sum of the quantities of the
\* first n records of users us on bond id b with the given side.
RECURSIVE Traded(_, _, _, _)
Traded(n, us, b, side) ==
    IF n = 0 THEN 0
    ELSE Traded(n - 1, us, b, side)
         + (IF /\ transactions[n].user_address \in us
               /\ transactions[n].bond_id = b
               /\ transactions[n].transaction_type = side
            THEN transactions[n].quantity ELSE 0)

Bought(us, b) == Traded(Len(transactions), us, b, "buy")

Sold(us, b) == Traded(Len(transactions), us, b, "sell")

\* The quantity of bond b the stored portfolio of u holds, 0 without one.
StoredHolding(u, b) ==
    IF u \notin DOMAIN portfolios THEN 0
    ELSE IF \E k \in 1..Len(portfolios[u].bonds) : portfolios[u].bonds[k].bond_id = b
    THEN LET k == CHOOSE k \in 1..Len(portfolios[u].bonds) :
                      portfolios[u].bonds[k].bond_id = b
         IN  portfolios[u].bonds[k].quantity
    ELSE 0

Known(b) == \E i \in 1..Len(bonds) : bonds[i].id = b

\* The stored bond with id b (b known).
Stored(b) == bonds[CHOOSE i \in 1..Len(bonds) : bonds[i].id = b]

\* Slot p leaves the first step of POST /trade in this step.
Decides(p) == pc[p] = "t_find_bond" /\ pc'[p] # "t_find_bond"

Finished(p, kind) == pc[p] = "done" /\ local[p].kind = kind

\* C1 (as claimed): in every reachable state every bond has
\* 0 <= available_supply <= total_supply.
SupplyWithinBounds ==
    \A i \in 1..Len(bonds) :
        /\ 0 <= bonds[i].available_supply
        /\ bonds[i].available_supply <= bonds[i].total_supply

\* C3 (as claimed): a sell of more than the user holds of the bond is rejected
\* with status 400 and leaves bonds, transactions and portfolios unchanged.
SellBeyondHoldingRejected ==
    [][\A p \in Proc :
          (/\ Decides(p)
           /\ local[p].trade.transaction_type = "sell"
           /\ Known(local[p].trade.bond_id)
           /\ local[p].trade.quantity
                > StoredHolding(local[p].trade.user_address, local[p].trade.bond_id))
          => (/\ pc'[p] = "done"
              /\ resp'[p].status = 400
              /\ store' = store)]_vars

\* C4: a trade whose bond_id matches no bond ends with status 404 in its first
\* step and leaves bonds, transactions and portfolios unchanged.
UnknownBondRejected ==
    [][\A p \in Proc :
          (Decides(p) /\ ~Known(local[p].trade.bond_id))
          => (/\ pc'[p] = "done"
              /\ resp'[p].status = 404
              /\ store' = store)]_vars

\* C4 witness: a trade on an unknown id was answered 404 on a seeded catalog
\* with a transaction on record and a portfolio stored.
UnknownBondWitness ==
    \E p \in Proc :
        /\ Finished(p, "trade")
        /\ resp[p].status = 404
        /\ Len(bonds) = Len(MOCK_BONDS)
        /\ transactions # <<>>
        /\ DOMAIN portfolios # {}

\* C5: a buy of more than the available_supply the trade reads ends with status
\* 400 in its first step and leaves bonds, transactions and portfolios unchanged.
OversizedBuyRejected ==
    [][\A p \in Proc :
          (/\ Decides(p)
           /\ Known(local[p].trade.bond_id)
           /\ local[p].trade.transaction_type = "buy"
           /\ local[p].trade.quantity
                > Stored(local[p].trade.bond_id).available_supply)
          => (/\ pc'[p] = "done"
              /\ resp'[p].status = 400
              /\ store' = store)]_vars

\* C5 witness: a buy of more than the available supply was answered 400 with a
\* transaction on record and a portfolio stored.
OversizedBuyWitness ==
    \E p \in Proc :
        /\ Finished(p, "trade")
        /\ resp[p].status = 400
        /\ local[p].trade.transaction_type = "buy"
        /\ local[p].trade.quantity
             > Stored(local[p].trade.bond_id).available_supply
        /\ transactions # <<>>
        /\ DOMAIN portfolios # {}

\* C6, the settlement: the step that ends a buy of q by u on b (no other request
\* in flight) leaves b's available_supply q below the one the trade read, and u's
\* stored holding of b q above the one stored before.
BuySettles ==
    \A p \in Proc :
        (/\ pc[p] = "t_save" /\ pc'[p] = "done"
         /\ local[p].trade.transaction_type = "buy")
        => LET trade == local[p].trade
           IN  /\ resp'[p].status = 200
               /\ Stored(trade.bond_id)'.available_supply
                    = local[p].bond.available_supply - trade.quantity
               /\ StoredHolding(trade.user_address, trade.bond_id)'
                    = StoredHolding(trade.user_address, trade.bond_id)
                      + trade.quantity

\* C6, GET /bonds: each bond is reported with the seeded available_supply less
\* what the log says was bought of it, plus what was sold.
BondsReportSupply ==
    \A p \in Proc :
        Finished(p, "get_bonds")
        => /\ Len(resp[p].bonds) = Len(MOCK_BONDS)
           /\ \A i \in 1..Len(resp[p].bonds) :
                 resp[p].bonds[i].available_supply
                   = MOCK_BONDS[i].available_supply
                     - Bought(Users, resp[p].bonds[i].id)
                     + Sold(Users, resp[p].bonds[i].id)

\* C6, GET /portfolio: a bond the user bought and never sold is reported with the
\* quantity bought.
PortfolioReportsHolding ==
    \A p \in Proc :
        Finished(p, "get_portfolio")
        => \A b \in {1, 2} :
              LET u == local[p].user_address
              IN  (Bought({u}, b) > 0 /\ Sold({u}, b) = 0)
                  => \E k \in 1..Len(resp[p].detailed_holdings) :
                        /\ resp[p].detailed_holdings[k].bond.id = b
                        /\ resp[p].detailed_holdings[k].quantity = Bought({u}, b)

\* C6: a successful buy of q, run alone, takes q from the bond's available_supply
\* and adds q to the user's holding; GET /bonds and GET /portfolio report both.
BuyMovesSupplyToHolding ==
    /\ [][BuySettles]_vars
    /\ [](BondsReportSupply /\ PortfolioReportsHolding)

\* C6 witness: after a buy of 5 Ghana bonds GET /portfolio reports the 5 and the
\* stored supply is 7495.
BuyReportedWitness ==
    \E p \in Proc :
        /\ Finished(p, "get_portfolio")
        /\ Len(resp[p].detailed_holdings) = 1
        /\ resp[p].detailed_holdings[1].bond.country = "Ghana"
        /\ resp[p].detailed_holdings[1].quantity = 5
        /\ resp[p].detailed_holdings[1].bond.available_supply = 7495
        /\ Len(transactions) = 1

\* C7 (as claimed): when a user without holdings buys q, the total_value stored
\* and returned is trade_price * q (to the cent).
FirstBuyValuedAtTradePrice ==
    \A p \in Proc :
        (/\ Finished(p, "trade")
         /\ resp[p].status = 200
         /\ local[p].trade.transaction_type = "buy"
         /\ local[p].trade.quantity > 0
         /\ Len(local[p].portfolio.bonds) = 1
         /\ local[p].portfolio.bonds[1].quantity = local[p].trade.quantity)
        => /\ resp[p].new_portfolio_value
                = Round2(Times(resp[p].trade_price, local[p].trade.quantity))
           /\ local[p].portfolio.total_value = resp[p].new_portfolio_value

\* C8, the catalog: it never holds more than the four mock bonds, and a finished
\* GET /bonds leaves exactly them, in order, under four different ids.
CatalogIsMockBonds ==
    /\ Len(bonds) <= Len(MOCK_BONDS)
    /\ (\E p \in Proc : Finished(p, "get_bonds"))
       => /\ Len(bonds) = Len(MOCK_BONDS)
          /\ \A i \in 1..Len(bonds) : bonds[i].country = MOCK_BONDS[i].country
          /\ \A i, j \in 1..Len(bonds) : bonds[i].id = bonds[j].id => i = j

\* C8, later runs: once the four bonds are there no step adds, removes or
\* renames one.
CatalogKept ==
    Len(bonds) = Len(MOCK_BONDS)
    => /\ Len(bonds') = Len(bonds)
       /\ \A i \in 1..Len(bonds) : bonds'[i].id = bonds[i].id

\* C8: run one after another, the first initialize_bonds inserts the four mock
\* bonds and every later one inserts nothing.
SeedIdempotent == []CatalogIsMockBonds /\ [][CatalogKept]_vars

\* C8 witness: a second GET /bonds has finished (Ghana's price 944.00 takes two
\* refreshes) and the catalog holds four bonds.
SecondSeedWitness ==
    \E p \in Proc :
        /\ Finished(p, "get_bonds")
        /\ Len(bonds) = Len(MOCK_BONDS)
        /\ bonds[1].current_price = 944 * PriceScale

\* C2 (as claimed): once the concurrent trades have finished, the buys accepted
\* on a bond (one on which nothing was sold) sum to no more than the seeded
\* available_supply, and the stored available_supply is the seeded one less
\* that sum.
NoLostSupplyUpdate ==
    NoneInFlight
    => \A i \in 1..Len(bonds) :
          Sold(Users, bonds[i].id) = 0
          => /\ Bought(Users, bonds[i].id) <= MOCK_BONDS[i].available_supply
             /\ bonds[i].available_supply
                  = MOCK_BONDS[i].available_supply - Bought(Users, bonds[i].id)

\* C9 (as claimed): once the concurrent first-touch GET /bonds requests have
\* finished the catalog holds exactly four bonds, one per country, and a
\* GET /market-stats that found bonds reports four active bonds.
SeededOnce ==
    (NoneInFlight /\ bonds # <<>>)
    => /\ Len(bonds) = Len(MOCK_BONDS)
       /\ \A i, j \in 1..Len(bonds) :
             bonds[i].country = bonds[j].country => i = j
       /\ \A p \in Proc :
             (Finished(p, "get_market_stats") /\ resp[p].active_bonds > 0)
             => resp[p].active_bonds = Len(MOCK_BONDS)

\* C10 (as claimed): once the concurrent trades have finished, the stored holding
\* of a user who only bought is, for every bond, the sum of the user's accepted
\* buys of it.
PortfolioUpdatesSerialized ==
    NoneInFlight
    => \A u \in Users :
          (\A j \in 1..Len(bonds) : Sold({u}, bonds[j].id) = 0)
          => \A i \in 1..Len(bonds) :
                StoredHolding(u, bonds[i].id) = Bought({u}, bonds[i].id)

\* The ledger of bond i agrees with the log: what is available is the seeded
\* available_supply less what the recorded buys took plus what the recorded
\* sells gave back.
SupplyMatchesLog(i) ==
    bonds[i].available_supply =
        MOCK_BONDS[i].available_supply - Bought(Users, bonds[i].id)
                                       + Sold(Users, bonds[i].id)

\* C11: settlement is all-or-nothing.  Whenever no request is in flight, every
\* transaction record of the log has its supply change and its portfolio change
\* in the store: each bond's available_supply agrees with the log, and a user
\* who never sold holds what the log says they bought.  A trade whose store
\* call failed after the insert must therefore have left nothing.
SettlementAllOrNothing ==
    NoneInFlight =>
        /\ \A i \in 1..Len(bonds) : SupplyMatchesLog(i)
        /\ \A u \in Users : \A i \in 1..Len(bonds) :
               Sold({u}, bonds[i].id) = 0 =>
                   StoredHolding(u, bonds[i].id) = Bought({u}, bonds[i].id)

\* A request body the marketplace must not act on.
InvalidTrade(trade) ==
    trade.quantity <= 0 \/ trade.transaction_type \notin {"buy", "sell"}

\* C12: a POST /trade whose quantity is not positive, or whose transaction_type
\* is neither "buy" nor "sell", is answered 400 at the checks and changes
\* nothing: no such request gets past the first step, and the log holds no
\* record of one.
InvalidTradeRejected ==
    /\ \A p \in Proc :
           (/\ local[p].kind = "trade"
            /\ InvalidTrade(local[p].trade)
            /\ Known(local[p].trade.bond_id)
            /\ pc[p] # "t_find_bond")
               => (pc[p] = "done" /\ resp[p].status = 400)
    /\ \A n \in 1..Len(transactions) : ~InvalidTrade(transactions[n])

\* C13: the stored portfolios hold strictly positive quantities only.
StoredHoldingsPositive ==
    \A u \in DOMAIN portfolios :
        \A k \in 1..Len(portfolios[u].bonds) : portfolios[u].bonds[k].quantity > 0

\* 70 percent of a face value.
SeventyPercent(face_value) == (7 * face_value) \div 10

\* C14: no price the pricing engine produces is below 70 percent of the bond's
\* face_value: not a current_price stored by a refresh, not the price_per_bond
\* of a recorded trade, not the trade_price of a response.
PriceFloorHolds ==
    /\ \A i \in 1..Len(bonds) :
           bonds[i].current_price >= SeventyPercent(bonds[i].face_value)
    /\ \A n \in 1..Len(transactions) :
           Known(transactions[n].bond_id) =>
               transactions[n].price_per_bond
                   >= SeventyPercent(Stored(transactions[n].bond_id).face_value)
    /\ \A p \in Proc :
           (Finished(p, "trade") /\ resp[p].status = 200) =>
               resp[p].trade_price
                   >= SeventyPercent(Stored(local[p].trade.bond_id).face_value)

\* C14 witness: South Africa has been refreshed down to the floor, where the
\* seeded risk discount outweighs the scarcity premium, and a buy of it was
\* executed at the floor.
PriceFloorWitness ==
    \E p \in Proc :
        /\ Finished(p, "trade")
        /\ resp[p].status = 200
        /\ local[p].trade.bond_id = 4
        /\ Stored(4).current_price = SeventyPercent(Stored(4).face_value)
        /\ ScarcityAdjustment(Stored(4)) < Stored(4).risk_factor * PriceScale
        /\ resp[p].trade_price = SeventyPercent(Stored(4).face_value)

\* Slot p has answered GET /bonds/{id}/yield with a yield.
YieldAnswered(p) == Finished(p, "get_bond_yield") /\ resp[p].status = 200

\* coupon_rate x (1 + risk_factor / 100) rounded to 2 decimals, in hundredths
\* of a percent.
RiskAdjustedRounded(bond) ==
    RoundTo(bond.coupon_rate * (1000 + bond.risk_factor), 100) \div 100

\* C15: of two bonds that differ only in risk_factor, evaluated on the same
\* date, the one with the larger risk_factor has a dynamic yield that is not
\* smaller; and the dynamic yield of a bond is never below its risk-adjusted
\* component rounded to 2 decimals.
YieldMonotoneInRisk ==
    /\ \A p \in Proc : \A q \in Proc :
           (/\ YieldAnswered(p) /\ YieldAnswered(q)
            /\ Stored(local[p].bond_id).coupon_rate
                   = Stored(local[q].bond_id).coupon_rate
            /\ Stored(local[p].bond_id).maturity_date
                   = Stored(local[q].bond_id).maturity_date
            /\ Stored(local[p].bond_id).risk_factor
                   <= Stored(local[q].bond_id).risk_factor)
               => resp[p].dynamic_yield <= resp[q].dynamic_yield
    /\ \A p \in Proc :
           YieldAnswered(p) =>
               resp[p].dynamic_yield >= RiskAdjustedRounded(Stored(local[p].bond_id))

\* C15 witness: the two bonds differ in risk_factor only, both yields have been
\* answered, the riskier bond's is strictly larger, and the maturity adds to it.
YieldMonotoneWitness ==
    /\ YieldAnswered(1) /\ YieldAnswered(2)
    /\ local[1].bond_id = 1 /\ local[2].bond_id = 2
    /\ bonds[1].coupon_rate = bonds[2].coupon_rate
    /\ bonds[1].maturity_date = bonds[2].maturity_date
    /\ bonds[1].risk_factor < bonds[2].risk_factor
    /\ resp[1].dynamic_yield < resp[2].dynamic_yield
    /\ resp[1].dynamic_yield > RiskAdjustedRounded(bonds[1])

\* The dynamic yields of the bonds the stored portfolio of u holds.
HeldYields(u) ==
    { calculate_dynamic_yield(Stored(portfolios[u].bonds[k].bond_id), datetime_now) :
        k \in 1..Len(portfolios[u].bonds) }

\* C16: the total_yield of a stored portfolio is the value-weighted average of
\* the yields of its holdings, so with two or more bonds held it lies between
\* the smallest and the largest of these yields.
TotalYieldIsWeightedAverage ==
    NoneInFlight =>
        \A u \in DOMAIN portfolios :
            (Len(portfolios[u].bonds) >= 2 /\ Positive(portfolios[u].total_value))
                => \E lo \in HeldYields(u) : \E hi \in HeldYields(u) :
                       /\ lo <= portfolios[u].total_yield
                       /\ portfolios[u].total_yield <= hi

\* C17: GET /market-stats counts the whole store: total_transactions is the
\* number of records of the transaction log, whatever its size, and
\* active_bonds is the number of bonds of the catalog.
StatsCountWholeLog ==
    \A p \in Proc :
        (Finished(p, "get_market_stats") /\ resp[p].status = 200) =>
            /\ resp[p].total_transactions = Len(transactions)
            /\ resp[p].active_bonds = Len(bonds)

\* a >= b for two amounts.
AtLeast(a, b) == a.d > b.d \/ (a.d = b.d /\ a.f >= b.f)

\* C18: after a buy has been settled, a GET /market-stats answered less than 24
\* hours after it reports total_transactions >= 1 and a total_volume_24h of at
\* least the buy's total_amount (compared to the cent, as the report is
\* rounded).  Requests run one at a time here, so every record the log holds
\* when the report has been answered is of a trade settled before it.
RecentBuyInVolume ==
    \A p \in Proc :
        (Finished(p, "get_market_stats") /\ resp[p].status = 200) =>
            \A n \in 1..Len(transactions) :
                (/\ transactions[n].transaction_type = "buy"
                 /\ utcnow - transactions[n].timestamp < 24)
                    => /\ resp[p].total_transactions >= 1
                       /\ AtLeast(resp[p].total_volume_24h,
                                  Round2(transactions[n].total_amount))

\* The bond a settled trade of slot p read: the stored bond, its
\* available_supply as it was before the trade's update.
BondAsRead(p) ==
    LET trade == local[p].trade
        bond == Stored(trade.bond_id)
    IN  [bond EXCEPT !.available_supply =
            IF trade.transaction_type = "buy" THEN @ + trade.quantity
            ELSE @ - trade.quantity]

\* The price of a bond at the neutral demand signal 1.0, where the demand term
\* (demand - 1) x 25 vanishes: the current price plus the scarcity premium less
\* $10 per percent of risk, and not below 70 percent of the face value.
NeutralPrice(bond) ==
    LET price == bond.current_price + ScarcityAdjustment(bond)
                 - bond.risk_factor * PriceScale
    IN  Max(price, SeventyPercent(bond.face_value))

\* amount = price x quantity for a quantity > 0, dollars and fraction apart:
\* the whole dollars of the price times the quantity, and what the fractions
\* carry over.
IsProduct(amount, price, quantity) ==
    LET carry == amount.d - (price \div PriceScale) * quantity
    IN  /\ 0 <= carry /\ carry <= quantity
        /\ (price % PriceScale) * quantity = carry * PriceScale + amount.f

\* The record of the log with the given id.
Recorded(id) == transactions[CHOOSE n \in 1..Len(transactions) : transactions[n].id = id]

\* C19: an accepted trade executes at the price of the bond as the trade read
\* it, at demand 1.0; the total_amount it returns is that price times the
\* quantity; and its transaction record carries the returned trade_price and
\* total_amount.
TradeExecutesAtNeutralPrice ==
    \A p \in Proc :
        (Finished(p, "trade") /\ resp[p].status = 200) =>
            /\ resp[p].trade_price = NeutralPrice(BondAsRead(p))
            /\ IsProduct(resp[p].total_amount, resp[p].trade_price,
                         local[p].trade.quantity)
            /\ \E n \in 1..Len(transactions) :
                   transactions[n].id = resp[p].transaction_id
            /\ Recorded(resp[p].transaction_id).price_per_bond = resp[p].trade_price
            /\ Recorded(resp[p].transaction_id).total_amount = resp[p].total_amount

\* C19 witness: a buy of a few units has been settled at a price that is
\* neither the bond's current price nor the floor.
TradeExecutesWitness ==
    \E p \in Proc :
        /\ Finished(p, "trade")
        /\ resp[p].status = 200
        /\ local[p].trade.transaction_type = "buy"
        /\ local[p].trade.quantity = 5
        /\ resp[p].trade_price # Stored(local[p].trade.bond_id).current_price
        /\ resp[p].trade_price > SeventyPercent(Stored(local[p].trade.bond_id).face_value)
        /\ Positive(resp[p].total_amount)

\* C20: every bond GET /bonds returns has a current_price of at least $500
\* and at most $1200, after any number of refreshes and trades.
ListedPriceInRange ==
    \A p \in Proc :
        (Finished(p, "get_bonds") /\ resp[p].status = 200) =>
            \A i \in 1..Len(resp[p].bonds) :
                /\ resp[p].bonds[i].current_price >= 500 * PriceScale
                /\ resp[p].bonds[i].current_price <= 1200 * PriceScale

\* The records of the log before a step are the first records after it.
LogExtended ==
    /\ Len(transactions') >= Len(transactions)
    /\ SubSeq(transactions', 1, Len(transactions)) = transactions

\* C21: the transaction log is append-only.  No step of any request changes or
\* removes a record; a step appends at most one; a trade rejected at the checks
\* appends none; a trade answered 200 has exactly one record in the log; and
\* when no request is in flight the log holds one record per accepted trade
\* (the ids handed out, less those of the seeded bonds).
LogAppendOnly ==
    /\ [](NoneInFlight => Len(transactions) = nextId - 1 - Len(bonds))
    /\ [][ /\ LogExtended
           /\ Len(transactions') <= Len(transactions) + 1
           /\ \A p \in Proc :
                  (Decides(p) /\ pc'[p] = "done") => transactions' = transactions
           /\ \A p \in Proc :
                  (/\ pc[p] \in TradeLabels /\ pc'[p] = "done"
                   /\ resp'[p].status = 200)
                      => Cardinality({ n \in 1..Len(transactions') :
                             transactions'[n].id = resp'[p].transaction_id }) = 1
         ]_vars

\* C21 witness: with one accepted trade in the log, a further trade has been
\* rejected and the log still holds that one record.
LogAppendOnlyWitness ==
    \E p \in Proc :
        /\ Finished(p, "trade")
        /\ resp[p].status = 400
        /\ Len(transactions) = 1
        /\ transactions[1].user_address # local[p].trade.user_address

\* The sum over the first n holdings of the stored current_price of the bond
\* times the quantity held.
RECURSIVE HoldingsValue(_, _)
HoldingsValue(holdings, n) ==
    IF n = 0 THEN Zero
    ELSE Plus(HoldingsValue(holdings, n - 1),
              Times(Stored(holdings[n].bond_id).current_price, holdings[n].quantity))

\* C22: right after a settlement for user u, with no other request in between,
\* the total_value of u's stored portfolio is the sum over u's holdings of the
\* bond's stored current_price times the quantity, rounded to 2 decimals, and
\* the response's new_portfolio_value is that stored total_value.
TotalValueIsHoldingsValue ==
    \A p \in Proc :
        (Finished(p, "trade") /\ resp[p].status = 200) =>
            LET u == local[p].trade.user_address
            IN  /\ u \in DOMAIN portfolios
                /\ portfolios[u].total_value
                       = Round2(HoldingsValue(portfolios[u].bonds,
                                              Len(portfolios[u].bonds)))
                /\ resp[p].new_portfolio_value = portfolios[u].total_value

\* C22 witness: a settlement has left the user with two bonds held, at a trade
\* price that is not the bond's stored current_price.
TotalValueWitness ==
    \E p \in Proc :
        /\ Finished(p, "trade")
        /\ resp[p].status = 200
        /\ Len(portfolios[local[p].trade.user_address].bonds) = 2
        /\ Positive(resp[p].new_portfolio_value)
        /\ resp[p].trade_price # Stored(local[p].trade.bond_id).current_price

\* A price that is a whole number of cents.
WholeCents(price) == price % (PriceScale \div 100) = 0

\* C23: every price of the pricing engine is rounded to 2 decimals wherever it
\* is used: the stored current_price of every bond, the price_per_bond of every
\* transaction record and the trade_price of every response are multiples of
\* 0.01.
PricesRoundedToCents ==
    /\ \A i \in 1..Len(bonds) : WholeCents(bonds[i].current_price)
    /\ \A n \in 1..Len(transactions) : WholeCents(transactions[n].price_per_bond)
    /\ \A p \in Proc :
           (Finished(p, "trade") /\ resp[p].status = 200)
               => WholeCents(resp[p].trade_price)

\* The quantity of bond b the stored portfolios of the users us hold together.
RECURSIVE HeldBy(_, _)
HeldBy(us, b) ==
    IF us = {} THEN 0
    ELSE LET u == CHOOSE u \in us : TRUE
         IN  StoredHolding(u, b) + HeldBy(us \ {u}, b)

\* C24: supply is conserved.  Whenever no request is in flight, the
\* available_supply of every bond plus what all portfolios hold of it is the
\* available_supply the bond was seeded with.
SupplyConserved ==
    NoneInFlight =>
        \A i \in 1..Len(bonds) :
            bonds[i].available_supply + HeldBy(Users, bonds[i].id)
                = MOCK_BONDS[i].available_supply

\* Slot p, a GET /bonds on a seeded catalog, takes this step.
RefreshSteps(p) ==
    /\ pc[p] \in {"g_count", "g_find", "g_update", "g_refetch"}
    /\ (pc'[p] # pc[p] \/ local'[p] # local[p])

\* C25: a price refresh changes only current_price.  No step of a GET /bonds
\* on a seeded catalog changes a portfolio, the transaction log, the number of
\* bonds or any field of a bond other than current_price, whatever a
\* concurrent trade has written since the refresh read the catalog.
RefreshChangesOnlyPrice ==
    [][ \A p \in Proc :
            RefreshSteps(p) =>
                /\ portfolios' = portfolios
                /\ transactions' = transactions
                /\ Len(bonds') = Len(bonds)
                /\ \A i \in 1..Len(bonds) :
                       [bonds'[i] EXCEPT !.current_price = bonds[i].current_price]
                           = bonds[i]
      ]_vars

\* C25 witness: a refresh has written the price of every bond from a snapshot
\* whose available_supply of Ghana is not the stored one, a trade having
\* updated the supply after the refresh read the catalog; the stored supply is
\* the trade's, and the stored price is not the seeded one.
RefreshChangesOnlyPriceWitness ==
    \E p \in Proc : \E q \in Proc :
        /\ pc[p] = "g_refetch"
        /\ local[p].bonds[1].available_supply # bonds[1].available_supply
        /\ local[q].kind = "trade"
        /\ pc[q] \in {"t_find_portfolio", "t_value", "t_save", "done"}
        /\ bonds[1].available_supply = NewAvailableSupply(local[q].bond, local[q].trade)
        /\ bonds[1].current_price # local[p].bonds[1].current_price

\* Bond b is a key of the holdings of u in the portfolios ports.
HasKey(ports, u, b) ==
    /\ u \in DOMAIN ports
    /\ \E k \in 1..Len(ports[u].bonds) : ports[u].bonds[k].bond_id = b

\* Slot p stores the portfolio of a sell of exactly what the user holds.
ExactSellSettles(p) ==
    /\ pc[p] = "t_save" /\ pc'[p] = "done" /\ resp'[p].status = 200
    /\ local[p].trade.transaction_type = "sell"
    /\ local[p].trade.quantity > 0
    /\ HasKey(portfolios, local[p].trade.user_address, local[p].trade.bond_id)
    /\ StoredHolding(local[p].trade.user_address, local[p].trade.bond_id)
           = local[p].trade.quantity

\* C26: a sell of exactly the quantity held removes the bond's key from the
\* portfolio; the portfolio stays stored, and with no holdings left its
\* total_value and total_yield are 0.  No step ever deletes a stored portfolio.
ExactSellRemovesKey ==
    [][ /\ DOMAIN portfolios \subseteq DOMAIN portfolios'
        /\ \A p \in Proc :
               ExactSellSettles(p) =>
                   LET u == local[p].trade.user_address
                   IN  /\ u \in DOMAIN portfolios'
                       /\ ~HasKey(portfolios', u, local[p].trade.bond_id)
                       /\ Len(portfolios'[u].bonds) = Len(portfolios[u].bonds) - 1
                       /\ portfolios'[u].bonds = <<>> =>
                              /\ portfolios'[u].total_value = Zero
                              /\ portfolios'[u].total_yield = 0
      ]_vars

\* C26 witness: a user bought five bonds and sold the five; the portfolio is
\* stored with no holdings and a total_value and total_yield of 0.
ExactSellWitness ==
    \E p \in Proc :
        LET u == local[p].trade.user_address
            b == local[p].trade.bond_id
        IN  /\ Finished(p, "trade")
            /\ resp[p].status = 200
            /\ local[p].trade.transaction_type = "sell"
            /\ Len(transactions) = 2
            /\ Bought({u}, b) = 5 /\ Sold({u}, b) = 5
            /\ transactions[1].transaction_type = "buy"
            /\ u \in DOMAIN portfolios
            /\ portfolios[u].bonds = <<>>
            /\ portfolios[u].total_value = Zero
            /\ portfolios[u].total_yield = 0

====
